---- MODULE Spec2Model ----
(***************************************************************************)
(* External systems plugin (raquelt/external_system).                      *)
(*                                                                         *)
(* The repository holds two variants of one dispatch layer:                *)
(*   "decorator": external_systems_creator_with_decorator.py               *)
(*                every action_<name> of the base class is decorated with  *)
(*                _common_process, which looks for a plugin method         *)
(*                _action_<name> (hasattr) and calls it;                   *)
(*   "metaclass": external_systems_creator_with_metaclass.py               *)
(*                a metaclass decorates every function action_<name> of a  *)
(*                class body with _common_process, which calls the         *)
(*                function and treats NotImplementedError as the signal    *)
(*                "not implemented".                                       *)
(*                                                                         *)
(* Both variants are driven here by the same calls, so that every state    *)
(* holds what each of them did with the same input.                        *)
(***************************************************************************)
EXTENDS Integers, Sequences, FiniteSets, TLC

VARIABLES external_system_code, plugin, handlers, calls, first, last

vars == <<external_system_code, plugin, handlers, calls, first, last>>

(***************************************************************************)
(* Bound of the model: number of action calls made on the plugin instance. *)
(***************************************************************************)
MaxCalls == 2

Variants == {"decorator", "metaclass"}

(***************************************************************************)
(* The eight event kinds of the fixed enumeration, by the name of their    *)
(* action entry point.                                                     *)
(***************************************************************************)
EventKinds ==
  {"action_first_assignment", "action_active", "action_delayed",
   "action_restored", "action_solved", "action_active_after_solved",
   "action_added_note", "action_added_attachment"}

(***************************************************************************)
(* The action_* methods the base class ExternalSystemCreator defines.      *)
(***************************************************************************)
DecoratorBaseActions ==
  {"action_first_assignment", "action_active", "action_delayed",
   "action_restored", "action_solved",
   "action_added_note", "action_added_attachment"}

MetaclassBaseActions ==
  {"action_first_assignment", "action_active", "action_delayed",
   "action_restored", "action_solved", "action_active_after_solved",
   "action_added_note", "action_added_attachment"}

BaseActions(v) ==
  IF v = "decorator" THEN DecoratorBaseActions ELSE MetaclassBaseActions

(***************************************************************************)
(* _get_plugin_method_name: "_" + common_method.                           *)
(***************************************************************************)
get_plugin_method_name(common_method) ==
  CASE common_method = "action_first_assignment" -> "_action_first_assignment"
    [] common_method = "action_active" -> "_action_active"
    [] common_method = "action_delayed" -> "_action_delayed"
    [] common_method = "action_restored" -> "_action_restored"
    [] common_method = "action_solved" -> "_action_solved"
    [] common_method = "action_active_after_solved" -> "_action_active_after_solved"
    [] common_method = "action_added_note" -> "_action_added_note"
    [] common_method = "action_added_attachment" -> "_action_added_attachment"

(***************************************************************************)
(* Payload values of external_tt_id used by the example plugins.           *)
(***************************************************************************)
EXTERNAL_TT_ID == "EXTERNAL_ID_OK"
EXTERNAL_TT_ID_NOT_IMPLEMENT == "EXTERNAL_ID_NOT_IMPLEMENT"
EXTERNAL_TT_ID_NOK == "EXTERNAL_ID_NOK"

ExternalTtIds == {EXTERNAL_TT_ID, EXTERNAL_TT_ID_NOT_IMPLEMENT, EXTERNAL_TT_ID_NOK}

(***************************************************************************)
(* How the incidence reaches inner:                                        *)
(*   "kw_id"    incidence={"_id": ...} as keyword (as the tests do)        *)
(*   "kw_noid"  incidence={} as keyword                                    *)
(*   "pos_id"   {"_id": ...} as first positional argument                  *)
(*   "pos_noid" {} as first positional argument                            *)
(*   "missing"  no incidence argument at all (args = ())                   *)
(* Callers use the forms of Incidences; "pos_noid" arises when the         *)
(* decorator file's action_delayed hands a keyword incidence on            *)
(* positionally.                                                           *)
(***************************************************************************)
Incidences == {"kw_id", "kw_noid", "pos_id", "missing"}

HasId(incidence) == incidence \in {"kw_id", "pos_id"}

(***************************************************************************)
(* The plugins: the ExampleExternalSystemPlugin of each file, and a        *)
(* "generic" plugin that implements the set `handlers` of event kinds,     *)
(* each handler returning for EXTERNAL_ID_OK, raising NotImplementedError  *)
(* for EXTERNAL_ID_NOT_IMPLEMENT and raising Exception otherwise.          *)
(***************************************************************************)
Plugins == {"example", "generic"}

GenericHandlerSets ==
  {{"action_first_assignment", "action_delayed", "action_active_after_solved",
    "action_added_note"},
   {"action_active", "action_restored", "action_solved",
    "action_added_attachment"}}

(***************************************************************************)
(* The attributes each plugin class body defines (its classDict).          *)
(***************************************************************************)
ExamplePluginDecoratorDict ==
  {"__init__", "_action_first_assignment", "action_delayed",
   "_action_delayed", "_action_restored", "_action_solved"}

ExamplePluginMetaclassDict ==
  {"__init__", "action_first_assignment", "action_delayed", "action_restored",
   "action_solved", "action_added_note", "action_added_attachment"}

ClassDict(v, p, hs) ==
  IF p = "example"
    THEN IF v = "decorator" THEN ExamplePluginDecoratorDict
                            ELSE ExamplePluginMetaclassDict
    ELSE IF v = "decorator"
           THEN {"__init__"} \cup {get_plugin_method_name(k) : k \in hs}
           ELSE {"__init__"} \cup hs

(***************************************************************************)
(* ExternalSystemCreatorMetaclass.__new__: the attributes of a class body  *)
(* that get wrapped in _common_process, i.e. the functions whose name      *)
(* starts with 'action_'.                                                  *)
(***************************************************************************)
MetaclassNew(classDict) == {a \in classDict : a \in EventKinds}

(***************************************************************************)
(* hasattr(self, plugin_method) of the decorator variant.                  *)
(***************************************************************************)
hasattr(p, hs, plugin_method) == plugin_method \in ClassDict("decorator", p, hs)

(***************************************************************************)
(* Results of a call.                                                      *)
(*   outcome : the branch of the common processing that classified the     *)
(*             call: "Ok" (log "notified Ok"), "Skipped" (log "NOT         *)
(*             IMPLEMENTED"), "Failed" (log "error on action", or          *)
(*             "Incidence id not passed as argument"), or "Unclassified"   *)
(*             when no branch of the common processing classified it;      *)
(*   ret     : the value returned to the caller ("True", "False", "None"), *)
(*             or "Raise" when an exception reaches the caller;            *)
(*   exc     : the exception that reaches the caller, or "none";           *)
(*   detail  : the detail the failure log reports (type(exc).__name__);    *)
(*   handler : how the plugin's handler ended: "not_run", "return", or the *)
(*             name of the exception type it raised;                       *)
(*   steps   : the steps of the call, in order.                            *)
(***************************************************************************)
Result(outcome, ret, exc, detail, handler, steps) ==
  [outcome |-> outcome, ret |-> ret, exc |-> exc, detail |-> detail,
   handler |-> handler, steps |-> steps]

Raised(exc, handler, steps) ==
  Result("Unclassified", "Raise", exc, "", handler, steps)

(***************************************************************************)
(* Bodies of the plugin handlers: "return" for a normal return, otherwise  *)
(* the name of the exception type raised.                                  *)
(***************************************************************************)
GenericHandler(external_tt_id) ==
  IF external_tt_id = EXTERNAL_TT_ID THEN "return"
  ELSE IF external_tt_id = EXTERNAL_TT_ID_NOT_IMPLEMENT THEN "NotImplementedError"
  ELSE "Exception"

\* ExampleExternalSystemPlugin._action_<name> of the decorator file
ExampleDecoratorHandler(plugin_method, external_tt_id) ==
  IF external_tt_id = EXTERNAL_TT_ID THEN "return" ELSE "Exception"

\* action_delayed without its test of EXTERNAL_TT_ID_NOT_IMPLEMENT
ExampleMetaclassHandler_NoSignal(common_method, external_tt_id) ==
  IF common_method = "action_solved"
    THEN IF external_tt_id = EXTERNAL_TT_ID THEN "return" ELSE "NameError"
  ELSE IF external_tt_id = EXTERNAL_TT_ID THEN "return" ELSE "Exception"

\* ExampleExternalSystemPlugin.action_<name> of the metaclass file
ExampleMetaclassHandler(common_method, external_tt_id) ==
  IF common_method = "action_delayed"
    THEN IF external_tt_id = EXTERNAL_TT_ID_NOT_IMPLEMENT THEN "NotImplementedError"
         ELSE IF external_tt_id = EXTERNAL_TT_ID THEN "return"
         ELSE "Exception"
  ELSE IF common_method = "action_solved"
    \* ExternalError is not defined anywhere: the raise statement raises NameError
    THEN IF external_tt_id = EXTERNAL_TT_ID THEN "return" ELSE "NameError"
  ELSE IF external_tt_id = EXTERNAL_TT_ID THEN "return" ELSE "Exception"

\* ExternalSystemCreator.action_<name> of the metaclass file
BaseMethod == "NotImplementedError"

\* an except clause that catches a narrower class than Exception
IsException_Narrow(h) == h \in {"Exception", "NotImplementedError"}

\* except Exception: the exception types the handlers raise all derive from it
IsException(h) == h \in {"Exception", "NameError", "NotImplementedError"}

(***************************************************************************)
(* Extraction of the incidence id, common to both variants:                *)
(* "ok" when the id is found, otherwise the exception the lookup raises.   *)
(* (args is a tuple, so `args != None` always holds and the last branch,   *)
(* "Incidence id not passed as argument", is never taken.)                 *)
(***************************************************************************)
ArgsNotNone == TRUE

ExtractIncidenceId(incidence) ==
  IF incidence \in {"kw_id", "kw_noid"}
    THEN IF incidence = "kw_id" THEN "ok" ELSE "KeyError"
  ELSE IF ArgsNotNone
    THEN IF incidence = "missing" THEN "IndexError"
         ELSE IF incidence = "pos_id" THEN "ok" ELSE "KeyError"
  ELSE "not_passed"

(***************************************************************************)
(* The try/except of the decorator file, after hasattr found the plugin    *)
(* method: classification of the handler's end.                            *)
(***************************************************************************)
DecoratorClassify(h) ==
  IF h = "return" THEN "Ok"
  ELSE IF IsException(h) THEN "Failed"
  ELSE "Unclassified"

(***************************************************************************)
(* The return statements of the decorator file's inner: True after the     *)
(* handler returned, False when the plugin has no handler, and none (the   *)
(* function ends) in the except branch.                                    *)
(***************************************************************************)
DecoratorReturn(outcome) ==
  IF outcome = "Ok" THEN "True"
  ELSE IF outcome = "Skipped" THEN "False"
  ELSE "None"

\* the decorator file's inner returning True before the record step of Ok
DecoratorSteps_NoRecordOk(outcome) ==
  IF outcome = "Skipped"
    THEN <<"entry_log", "presence_check", "not_implemented_log">>
  ELSE IF outcome = "Ok"
    THEN <<"entry_log", "presence_check", "handler", "ok_log">>
  ELSE IF outcome = "Failed"
    THEN <<"entry_log", "presence_check", "handler", "error_log",
           "record_nok", "notify_failure">>
  ELSE <<"entry_log", "presence_check", "handler">>

(***************************************************************************)
(* The steps of the decorator file's inner once the incidence id is known. *)
(***************************************************************************)
DecoratorSteps(outcome) ==
  IF outcome = "Skipped"
    THEN <<"entry_log", "presence_check", "not_implemented_log">>
  ELSE IF outcome = "Ok"
    THEN <<"entry_log", "presence_check", "handler", "ok_log", "record_ok">>
  ELSE IF outcome = "Failed"
    THEN <<"entry_log", "presence_check", "handler", "error_log",
           "record_nok", "notify_failure">>
  ELSE <<"entry_log", "presence_check", "handler">>

(***************************************************************************)
(* _common_process.inner of the decorator file; `before` holds the steps   *)
(* made before inner was entered.                                          *)
(***************************************************************************)
DecoratorInner(p, hs, common_method, incidence, external_tt_id, before) ==
  LET id == ExtractIncidenceId(incidence)
      plugin_method == get_plugin_method_name(common_method)
      h == IF p = "example"
             THEN ExampleDecoratorHandler(plugin_method, external_tt_id)
             ELSE GenericHandler(external_tt_id)
      outcome == IF ~ hasattr(p, hs, plugin_method) THEN "Skipped"
                 ELSE DecoratorClassify(h)
      ran == IF outcome = "Skipped" THEN "not_run" ELSE h
  IN IF id = "not_passed"
       THEN Result("Failed", "False", "none", "InvalidInput", "not_run",
                   before \o <<"id_not_passed_log">>)
     ELSE IF id # "ok"
       THEN Raised(id, "not_run", before)
     ELSE IF outcome = "Unclassified"
       THEN Raised(h, ran, before \o DecoratorSteps(outcome))
     ELSE Result(outcome, DecoratorReturn(outcome), "none",
                 IF outcome = "Failed" THEN h ELSE "", ran,
                 before \o DecoratorSteps(outcome))

\* action_delayed of the decorator file delegating to the base class always
ExampleDecoratorActionDelayed_AlwaysSuper(p, hs, incidence, external_tt_id) ==
  IF incidence = "missing"
    THEN Raised("TypeError", "not_run", <<>>)
  ELSE DecoratorInner(p, hs, "action_delayed",
                      IF HasId(incidence) THEN "pos_id" ELSE "pos_noid",
                      external_tt_id, <<"override_body">>)

(***************************************************************************)
(* ExampleExternalSystemPlugin.action_delayed of the decorator file: the   *)
(* plugin redefines the whole action and delegates to the base class's     *)
(* decorated method, positionally, for the other payloads.                 *)
(***************************************************************************)
ExampleDecoratorActionDelayed(p, hs, incidence, external_tt_id) ==
  IF incidence = "missing"
    THEN Raised("TypeError", "not_run", <<>>)
  ELSE IF external_tt_id = EXTERNAL_TT_ID_NOT_IMPLEMENT
    THEN Result("Unclassified", "True", "none", "", "not_run", <<"override_body">>)
  ELSE DecoratorInner(p, hs, "action_delayed",
                      IF HasId(incidence) THEN "pos_id" ELSE "pos_noid",
                      external_tt_id, <<"override_body">>)

(***************************************************************************)
(* Attribute lookup and call of action_<name> on a plugin instance of the  *)
(* decorator file.                                                         *)
(***************************************************************************)
DecoratorCall(p, hs, common_method, incidence, external_tt_id) ==
  IF common_method \in ClassDict("decorator", p, hs)
    THEN ExampleDecoratorActionDelayed(p, hs, incidence, external_tt_id)
  ELSE IF common_method \in DecoratorBaseActions
    THEN DecoratorInner(p, hs, common_method, incidence, external_tt_id, <<>>)
  ELSE Raised("AttributeError", "not_run", <<>>)

(***************************************************************************)
(* The try/except of the metaclass file: classification of the end of the  *)
(* wrapped function.                                                       *)
(***************************************************************************)
MetaclassClassify(h) ==
  IF h = "return" THEN "Ok"
  ELSE IF h = "NotImplementedError" THEN "Skipped"
  ELSE IF IsException(h) THEN "Failed"
  ELSE "Unclassified"

(***************************************************************************)
(* The metaclass file's inner has no return statement with a value.        *)
(***************************************************************************)
MetaclassReturn(outcome) == "None"

(***************************************************************************)
(* The steps of the metaclass file's inner once the incidence id is known; *)
(* body is "handler" for a function of the plugin, "base_method" for the   *)
(* base class's.                                                           *)
(***************************************************************************)
MetaclassSteps(outcome, body) ==
  IF outcome = "Ok"
    THEN <<"entry_log", body, "ok_log", "record_ok">>
  ELSE IF outcome = "Skipped"
    THEN <<"entry_log", body, "not_implemented_log">>
  ELSE IF outcome = "Failed"
    THEN <<"entry_log", body, "error_log", "record_nok", "notify_failure">>
  ELSE <<"entry_log", body>>

(***************************************************************************)
(* _common_process.inner of the metaclass file; func is the wrapped        *)
(* function: the plugin's own action_<name> or the base class's.           *)
(***************************************************************************)
MetaclassInner(p, hs, common_method, incidence, external_tt_id) ==
  LET id == ExtractIncidenceId(incidence)
      own == common_method \in MetaclassNew(ClassDict("metaclass", p, hs))
      h == IF ~ own THEN BaseMethod
           ELSE IF p = "example"
             THEN ExampleMetaclassHandler(common_method, external_tt_id)
           ELSE GenericHandler(external_tt_id)
      body == IF own THEN "handler" ELSE "base_method"
      ran == IF own THEN h ELSE "not_run"
      outcome == MetaclassClassify(h)
  IN IF id = "not_passed"
       THEN Result("Failed", "None", "none", "InvalidInput", "not_run",
                   <<"id_not_passed_log">>)
     ELSE IF id # "ok"
       THEN Raised(id, "not_run", <<>>)
     ELSE IF outcome = "Unclassified"
       THEN Raised(h, ran, MetaclassSteps(outcome, body))
     ELSE Result(outcome, MetaclassReturn(outcome), "none",
                 IF outcome = "Failed" THEN h ELSE "", ran,
                 MetaclassSteps(outcome, body))

(***************************************************************************)
(* Attribute lookup and call of action_<name> on a plugin instance of the  *)
(* metaclass file: every action_* function of the plugin's class body and  *)
(* of the base class's was wrapped when its class was created.             *)
(***************************************************************************)
MetaclassCall(p, hs, common_method, incidence, external_tt_id) ==
  IF common_method \in MetaclassNew(ClassDict("metaclass", p, hs) \cup MetaclassBaseActions)
    THEN MetaclassInner(p, hs, common_method, incidence, external_tt_id)
  ELSE Raised("AttributeError", "not_run", <<>>)

CallBoth(p, hs, common_method, incidence, external_tt_id) ==
  [v \in Variants |->
     IF v = "decorator"
       THEN DecoratorCall(p, hs, common_method, incidence, external_tt_id)
       ELSE MetaclassCall(p, hs, common_method, incidence, external_tt_id)]

NoCall == [kind |-> "none", incidence |-> "none", external_tt_id |-> "none",
           res |-> [v \in Variants |-> Raised("none", "not_run", <<>>)]]

(***************************************************************************)
(* Construction: ex_sys = Plugin(external_system_name='EXAMPLE').          *)
(***************************************************************************)
Init ==
  /\ external_system_code = "EXAMPLE"
  /\ plugin \in Plugins
  /\ handlers \in (IF plugin = "generic" THEN GenericHandlerSets ELSE {{}})
  /\ calls = 0
  /\ last = NoCall
  /\ first = NoCall

(***************************************************************************)
(* One call of action_<name> on the plugin instance, made on both          *)
(* variants with the same arguments.  inner and the handlers assign no     *)
(* attribute of self; `first` keeps the first call made on the instance    *)
(* and `last` the latest one.                                              *)
(***************************************************************************)
CallRecord(p, hs, common_method, incidence, external_tt_id) ==
  [kind |-> common_method, incidence |-> incidence,
   external_tt_id |-> external_tt_id,
   res |-> CallBoth(p, hs, common_method, incidence, external_tt_id)]

\* a call that leaves the resolved plugin method registered on the instance
Action_RegistersHandler(common_method, incidence, external_tt_id) ==
  /\ calls < MaxCalls
  /\ calls' = calls + 1
  /\ last' = CallRecord(plugin, handlers, common_method, incidence, external_tt_id)
  /\ first' = IF calls = 0 THEN last' ELSE first
  /\ handlers' = IF plugin = "generic" THEN handlers \cup {common_method}
                                       ELSE handlers
  /\ UNCHANGED <<external_system_code, plugin>>

Action(common_method, incidence, external_tt_id) ==
  /\ calls < MaxCalls
  /\ calls' = calls + 1
  /\ last' = CallRecord(plugin, handlers, common_method, incidence, external_tt_id)
  /\ first' = IF calls = 0 THEN last' ELSE first
  /\ UNCHANGED <<external_system_code, plugin, handlers>>

action_first_assignment ==
  \E i \in Incidences, t \in ExternalTtIds : Action("action_first_assignment", i, t)

action_active ==
  \E i \in Incidences, t \in ExternalTtIds : Action("action_active", i, t)

action_delayed ==
  \E i \in Incidences, t \in ExternalTtIds : Action("action_delayed", i, t)

action_restored ==
  \E i \in Incidences, t \in ExternalTtIds : Action("action_restored", i, t)

action_solved ==
  \E i \in Incidences, t \in ExternalTtIds : Action("action_solved", i, t)

action_active_after_solved ==
  \E i \in Incidences, t \in ExternalTtIds : Action("action_active_after_solved", i, t)

action_added_note ==
  \E i \in Incidences, t \in ExternalTtIds : Action("action_added_note", i, t)

action_added_attachment ==
  \E i \in Incidences, t \in ExternalTtIds : Action("action_added_attachment", i, t)

Next ==
  \/ action_first_assignment
  \/ action_active
  \/ action_delayed
  \/ action_restored
  \/ action_solved
  \/ action_active_after_solved
  \/ action_added_note
  \/ action_added_attachment

Spec == Init /\ [][Next]_vars

TypeOK ==
  /\ external_system_code = "EXAMPLE"
  /\ plugin \in Plugins
  /\ calls \in 0..MaxCalls
  /\ \A v \in Variants :
       /\ last.res[v].outcome \in {"Ok", "Skipped", "Failed", "Unclassified"}
       /\ last.res[v].ret \in {"True", "False", "None", "Raise"}


(***************************************************************************)
(* Vocabulary of the properties.                                           *)
(***************************************************************************)
Called == last.kind # "none"

Count(steps, s) == Cardinality({i \in DOMAIN steps : steps[i] = s})

Records(r) == Count(r.steps, "record_ok") + Count(r.steps, "record_nok")

Classified(r) == r.outcome \in {"Ok", "Skipped", "Failed"}

\* the plugin supplies no handler for the event kind k
NoHandler(v, k) ==
  IF v = "decorator"
    THEN ~ hasattr(plugin, handlers, get_plugin_method_name(k))
    ELSE k \notin MetaclassNew(ClassDict("metaclass", plugin, handlers))

\* the exception types that are faults of a handler: in the metaclass file
\* NotImplementedError is the signal "not implemented", not a fault
Faults(v) ==
  IF v = "decorator" THEN {"Exception", "NameError", "NotImplementedError"}
                     ELSE {"Exception", "NameError"}

\* the example plugin's delayed event with EXTERNAL_ID_NOT_IMPLEMENT
ExplicitNotApplicable ==
  /\ plugin = "example"
  /\ last.kind = "action_delayed"
  /\ last.external_tt_id = EXTERNAL_TT_ID_NOT_IMPLEMENT
  /\ HasId(last.incidence)

\* the steps of the common processing
CommonSteps ==
  {"entry_log", "presence_check", "ok_log", "not_implemented_log",
   "error_log", "record_ok", "record_nok", "notify_failure",
   "id_not_passed_log"}

StepSet(r) == {r.steps[i] : i \in DOMAIN r.steps}

C2_NoHandlerIsSkippedUnrecorded ==
  \A v \in Variants :
    (Called /\ HasId(last.incidence) /\ NoHandler(v, last.kind)) =>
      /\ last.res[v].outcome = "Skipped"
      /\ last.res[v].handler = "not_run"
      /\ "handler" \notin StepSet(last.res[v])
      /\ Records(last.res[v]) = 0

C5_MissingIdIsInvalidInput ==
  \A v \in Variants :
    (Called /\ ~ HasId(last.incidence)) =>
      /\ last.res[v].exc = "none"
      /\ last.res[v].outcome = "Failed"
      /\ last.res[v].detail = "InvalidInput"
      /\ last.res[v].handler = "not_run"
      /\ Records(last.res[v]) = 0

(***************************************************************************)
(* C6: no action call propagates an exception to its caller; every call    *)
(* yields exactly one of Ok, Skipped, Failed.                              *)
(***************************************************************************)
C6_NeverRaises ==
  \A v \in Variants :
    Called =>
      /\ last.res[v].exc = "none"
      /\ last.res[v].ret # "Raise"
      /\ Classified(last.res[v])

(***************************************************************************)
(* C7: for every event kind (here: those both base classes expose),        *)
(* payload and handler behaviour of the same plugin, the decorator variant *)
(* and the metaclass variant produce the same classification and the same  *)
(* record / no-record decision.                                            *)
(***************************************************************************)
C7_VariantsEquivalent ==
  (/\ Called
   /\ plugin = "generic"
   /\ last.kind \in DecoratorBaseActions \cap MetaclassBaseActions) =>
    /\ last.res["decorator"].outcome = last.res["metaclass"].outcome
    /\ Count(last.res["decorator"].steps, "record_ok")
         = Count(last.res["metaclass"].steps, "record_ok")
    /\ Count(last.res["decorator"].steps, "record_nok")
         = Count(last.res["metaclass"].steps, "record_nok")

(***************************************************************************)
(* C8: in each variant the values returned for the Ok, Skipped and Failed  *)
(* cases are pairwise distinguishable: two calls classified differently    *)
(* return different values.                                                *)
(***************************************************************************)
C8_ReturnCarriesClassification ==
  \A v \in Variants :
    (/\ Classified(first.res[v])
     /\ Classified(last.res[v])
     /\ first.res[v].outcome # last.res[v].outcome) =>
      first.res[v].ret # last.res[v].ret

(***************************************************************************)
(* C9: in each variant the base class exposes a wrapped action entry point *)
(* for each of the eight event kinds, so that a call of any of them        *)
(* reaches the common processing.                                          *)
(***************************************************************************)
C9_EveryKindHasEntryPoint ==
  \A v \in Variants :
    (Called /\ HasId(last.incidence)) =>
      /\ last.kind \in BaseActions(v)
      /\ last.res[v].exc # "AttributeError"

(***************************************************************************)
(* C10 as claimed: in each variant the plugin's override of an event kind  *)
(* runs none of the common processing for the inputs it ignores.           *)
(***************************************************************************)
C10_OverrideBypassesCommon ==
  ExplicitNotApplicable =>
    \A v \in Variants : StepSet(last.res[v]) \cap CommonSteps = {}

(***************************************************************************)
(* C10 as amended: in the decorator variant the plugin's override of an    *)
(* event kind runs none of the common processing for the inputs it         *)
(* ignores; in the metaclass variant the plugin's action function is       *)
(* itself wrapped, so the common entry log runs before it and the          *)
(* not-implemented log after it, and only the Ok/error logs and the        *)
(* record and notification steps are left out.                             *)
(***************************************************************************)
C10_OverrideBypassesCommonInDecorator ==
  ExplicitNotApplicable =>
    /\ last.res["decorator"].steps = <<"override_body">>
    /\ last.res["metaclass"].steps
         = <<"entry_log", "handler", "not_implemented_log">>

C10_Witness ==
  /\ ExplicitNotApplicable
  /\ last.res["decorator"].ret = "True"
  /\ "entry_log" \in StepSet(last.res["metaclass"])


(***************************************************************************)
(* C11: classification is independent of call history: after any sequence  *)
(* of calls on the same plugin instance, a call yields in each variant the *)
(* same result (classification, detail, returned value, exception, steps)  *)
(* as the same call made first, and external_system_code stays as set at   *)
(* construction.                                                           *)
(***************************************************************************)
SameCall(a, b) ==
  /\ a.kind = b.kind
  /\ a.incidence = b.incidence
  /\ a.external_tt_id = b.external_tt_id

====
